---- MODULE Spec2Model ----
(***************************************************************************)
(* A model of src/index.js, the wrapper of SINESP's search for plates:     *)
(* configure, validate, generateToken, generateBody, request, retry,       *)
(* normalize and search.  Every `await` of the source is a point where     *)
(* other calls (another search, a configure) may run, so each action below *)
(* is the code between two awaits.                                         *)
(***************************************************************************)
EXTENDS Integers, Sequences, FiniteSets, TLC

(***************************************************************************)
(* Bounds of the model.                                                    *)
(***************************************************************************)
\* number of search calls the caller makes
NCalls == 1
\* largest maximumRetry the caller configures
MaxRetry == 2
\* longest raw plate string handed to validate in SpecValidate
MaxPlateLen == 9
\* longest return code text of a response in SpecNormalize
MaxCodeLen == 2
\* most options one configure call supplies in SpecConfigure
MaxSupplied == 2

Calls == 1..NCalls

(***************************************************************************)
(* JavaScript values: undefined, null, strings, numbers.                   *)
(***************************************************************************)
Undefined == [t |-> "undefined"]
Null == [t |-> "null"]
Str(v) == [t |-> "string", v |-> v]
Num(v) == [t |-> "number", v |-> v]

\* ToBoolean, as `||` and `?:` apply it
Truthy(x) ==
  CASE x.t = "undefined" -> FALSE
    [] x.t = "null" -> FALSE
    [] x.t = "string" -> x.v # ""
    [] x.t = "number" -> x.v # 0
    [] OTHER -> TRUE

\* a || b
Or(a, b) == IF Truthy(a) THEN a ELSE b

RECURSIVE DigitsOf(_)
DigitsOf(n) ==
  LET d == <<"0", "1", "2", "3", "4", "5", "6", "7", "8", "9">>
  IN IF n < 10 THEN d[n + 1] ELSE DigitsOf(n \div 10) \o d[(n % 10) + 1]

\* `${x}` in a template literal
TemplateString(x) ==
  CASE x.t = "undefined" -> "undefined"
    [] x.t = "null" -> "null"
    [] x.t = "string" -> x.v
    [] x.t = "number" -> DigitsOf(x.v)

(***************************************************************************)
(* Strings that the regular expressions look into are sequences of         *)
(* one-character strings.  One representative per character class.         *)
(***************************************************************************)
Letters == {"A"}
Digits == {"7"}
LineTerminators == {"\n"}
Alphabet == Letters \cup Digits \cup LineTerminators \cup {"-"}

RECURSIVE Join(_)
Join(s) == IF s = <<>> THEN "" ELSE Head(s) \o Join(Tail(s))

\* SPECIAL = /[^a-zA-Z0-9]/i
SPECIAL(c) == c \notin Letters \cup Digits

\* String.prototype.replace(SPECIAL, ''): SPECIAL has no g flag, so only the
\* first match is replaced
ReplaceSpecial(s) ==
  LET hits == {i \in 1..Len(s) : SPECIAL(s[i])}
  IN IF hits = {} THEN s
     ELSE LET i == CHOOSE j \in hits : \A k \in hits : j <= k
          IN SubSeq(s, 1, i - 1) \o SubSeq(s, i + 1, Len(s))

\* PLATE_FORMAT = /^[a-zA-Z]{3}[0-9]{4}$/im, as RegExp.prototype.test applies
\* it: with the m flag ^ and $ also match after and before a line terminator
PLATE_FORMAT(s) ==
  \E i \in 1..Len(s) :
    /\ i + 6 <= Len(s)
    /\ i = 1 \/ s[i - 1] \in LineTerminators
    /\ \A j \in 0..2 : s[i + j] \in Letters
    /\ \A j \in 3..6 : s[i + j] \in Digits
    /\ i + 6 = Len(s) \/ s[i + 7] \in LineTerminators

\* the message of the Error validate throws (its accented letter in ASCII)
ValidationMessage == "Formato de placa invalido! Utilize o formato \"AAA9999\" ou \"AAA-9999\"."

\* validate(plate): the returned plate, or the error thrown
validate(plate) ==
  LET plateToUse == ReplaceSpecial(plate)
  IN IF ~PLATE_FORMAT(plateToUse)
     THEN [ok |-> FALSE, value |-> <<>>, error |-> ValidationMessage]
     ELSE [ok |-> TRUE, value |-> plateToUse, error |-> ""]

(***************************************************************************)
(* Configuration.                                                          *)
(***************************************************************************)
DEFAULT ==
  [host |-> Str("cidadao.sinesp.gov.br"),
   endpoint |-> Str("/sinesp-cidadao/mobile/consultar-placa/"),
   serviceVersion |-> Str("v4"),
   androidVersion |-> Str("8.1.0"),
   secret |-> Str("g8LzUadkEHs7mbRqbX5l"),
   timeout |-> Num(0),
   maximumRetry |-> Num(0),
   proxy |-> [host |-> Undefined, port |-> Undefined]]

\* the options object of a call with no option supplied: configure() or
\* configure({})
NoOptions ==
  [host |-> Undefined, endpoint |-> Undefined, serviceVersion |-> Undefined,
   androidVersion |-> Undefined, secret |-> Undefined, timeout |-> Undefined,
   maximumRetry |-> Undefined, proxy |-> Undefined]

\* the value configure assigns to opts, given the destructured options
configureOpts(o) ==
  LET proxy == IF o.proxy = Undefined
               THEN [host |-> Undefined, port |-> Undefined]
               ELSE o.proxy
  IN [host |-> Or(o.host, DEFAULT.host),
      endpoint |-> Or(o.endpoint, DEFAULT.endpoint),
      serviceVersion |-> Or(o.serviceVersion, DEFAULT.serviceVersion),
      androidVersion |-> Or(o.androidVersion, DEFAULT.serviceVersion),
      secret |-> Or(o.secret, DEFAULT.secret),
      timeout |-> Or(o.timeout, DEFAULT.timeout),
      maximumRetry |-> Or(o.maximumRetry, DEFAULT.maximumRetry),
      proxy |-> [host |-> Or(proxy.host, DEFAULT.proxy.host),
                 port |-> Or(proxy.port, DEFAULT.proxy.port)]]

(***************************************************************************)
(* Token, identity and request body.                                       *)
(***************************************************************************)
\* denominator of the values Math.random() takes here: r = k / RandomDen
RandomDen == 256

VARIABLES
  opts,        \* the module's `let opts`
  supplied,    \* the options object of the latest configure call
  pc,          \* where each search call stands: the await it is suspended at
  plate,       \* search's argument
  plateToUse,  \* generateBody's plateToUse
  ident,       \* ip, latitude, longitude and date of generateBody
  token,       \* token of generateBody
  body,        \* the document generateBody hands to buildObject
  req,         \* url and options request hands to retry
  attempt,     \* retry's attempt
  delay,       \* retry's delay
  slept,       \* the delays handed to sleep, in order
  sent,        \* the request configs handed to axios.request, in order
  raised,      \* the errors axios.request rejected with, in order
  response,    \* data of the response the transport returned
  outcome      \* what the promise search returned settled with

vars == <<opts, supplied, pc, plate, plateToUse, ident, token, body, req,
          attempt, delay, slept, sent, raised, response, outcome>>

\* createHmac('sha1', key).update(message).digest('hex'): the digest is kept
\* as the pair it is a function of
createHmac(key, message) == [alg |-> "sha1", key |-> key, message |-> message]

\* the key built without the android version
generateTokenNoVersion(p) ==
  LET secret == "#" \o TemplateString(opts.secret)
  IN createHmac(Join(p) \o secret, Join(p))

\* generateToken(plate)
generateToken(p) ==
  LET secret == "#" \o TemplateString(opts.androidVersion) \o "#" \o TemplateString(opts.secret)
  IN createHmac(Join(p) \o secret, Join(p))

\* the octet without the + 1: Math.floor(Math.random() * 255)
generateRandomOctetFromZero(k) == (k * 255) \div RandomDen

\* generateRandomOctet, with Math.random() = k / RandomDen
generateRandomOctet(k) == ((k * 255) \div RandomDen) + 1

\* generateIPAddress, with the four values Math.random() returns
generateIPAddress(r) ==
  <<generateRandomOctet(r[1]), generateRandomOctet(r[2]),
    generateRandomOctet(r[3]), generateRandomOctet(r[4])>>

\* generateCoordinate, with the two values Math.random() returns: the number
\* 2000 / sqrt(u) * sin(2 * 3.141592654 * theta) is kept as the pair it is a
\* function of
generateCoordinate(u, theta) == [seed |-> u, angle |-> theta]

\* generateLatitude
generateLatitude(u, theta) ==
  [coordinate |-> generateCoordinate(u, theta), minus |-> "38.5290245"]

\* generateLongitude
generateLongitude(u, theta) ==
  [coordinate |-> generateCoordinate(u, theta), minus |-> "3.7506985"]

\* the object generateBody builds, from its locals and opts
bodyOf(s) ==
  [b |-> "LGE Nexus 5", c |-> "ANDROID", d |-> opts.androidVersion,
   e |-> "4.3.2", f |-> ident[s].ip, g |-> token[s],
   h |-> ident[s].longitude, i |-> ident[s].latitude, j |-> "", k |-> "",
   l |-> ident[s].date,
   m |-> "8797e74f0d6eb7b1ff3dc114d4aa12d3", a |-> plateToUse[s]]

\* the options built without the configured timeout
requestOfNoTimeout(s) ==
  [url |-> "https://" \o TemplateString(opts.host) \o TemplateString(opts.endpoint)
             \o TemplateString(opts.serviceVersion),
   data |-> body[s],
   headers |-> [Host |-> opts.host],
   httpsAgent |-> IF Truthy(opts.proxy.host)
                  THEN [t |-> "HttpsProxyAgent",
                        v |-> "http://" \o TemplateString(opts.proxy.host) \o ":"
                              \o TemplateString(opts.proxy.port)]
                  ELSE Null,
   method |-> "POST",
   timeout |-> DEFAULT.timeout]

\* url and options request builds for retry
requestOf(s) ==
  [url |-> "https://" \o TemplateString(opts.host) \o TemplateString(opts.endpoint)
             \o TemplateString(opts.serviceVersion),
   data |-> body[s],
   headers |-> [Host |-> opts.host],
   httpsAgent |-> IF Truthy(opts.proxy.host)
                  THEN [t |-> "HttpsProxyAgent",
                        v |-> "http://" \o TemplateString(opts.proxy.host) \o ":"
                              \o TemplateString(opts.proxy.port)]
                  ELSE Null,
   method |-> "POST",
   timeout |-> opts.timeout]

(***************************************************************************)
(* Response decoding.                                                      *)
(***************************************************************************)
NaN == [t |-> "NaN"]

RECURSIVE SkipSpaces(_)
SkipSpaces(s) == IF s # <<>> /\ Head(s) = " " THEN SkipSpaces(Tail(s)) ELSE s

RECURSIVE DigitPrefix(_)
DigitPrefix(s) ==
  IF s # <<>> /\ Head(s) \in {"0", "7"}
  THEN <<Head(s)>> \o DigitPrefix(Tail(s))
  ELSE <<>>

RECURSIVE DecimalValue(_)
DecimalValue(s) ==
  IF s = <<>> THEN 0
  ELSE 10 * DecimalValue(SubSeq(s, 1, Len(s) - 1))
       + (IF s[Len(s)] = "7" THEN 7 ELSE 0)

\* parseInt(x, 10), x undefined or a string given as its characters
parseInt(x) ==
  IF x = Undefined THEN NaN
  ELSE LET t == SkipSpaces(x.v)
           neg == t # <<>> /\ Head(t) = "-"
           u == IF neg THEN Tail(t) ELSE t
           ds == DigitPrefix(u)
       IN IF ds = <<>> THEN NaN
          ELSE Num(IF neg THEN 0 - DecimalValue(ds) ELSE DecimalValue(ds))

\* message of Error(x)
ErrorMessage(x) == IF x = Undefined THEN "" ELSE TemplateString(x)

\* the elements of the path normalize destructures
PathLen == 4

\* normalize comparing the return code text itself with 0
normalizeUnparsed(r) ==
  IF ~r.parses THEN [ok |-> FALSE, value |-> Undefined, error |-> "parse error"]
  ELSE IF r.depth < PathLen
         THEN [ok |-> FALSE, value |-> Undefined, error |-> "TypeError"]
  ELSE IF r.ret.codigoRetorno.t # "number"
         THEN [ok |-> FALSE, value |-> Undefined,
               error |-> ErrorMessage(r.ret.mensagemRetorno)]
  ELSE [ok |-> TRUE, value |-> r.ret, error |-> ""]

\* normalize guarding the path: a missing element yields undefined, no error
normalizeLenient(r) ==
  IF ~r.parses THEN [ok |-> FALSE, value |-> Undefined, error |-> "parse error"]
  ELSE IF r.depth < PathLen
         THEN [ok |-> TRUE, value |-> Undefined, error |-> ""]
  ELSE IF parseInt(r.ret.codigoRetorno) # Num(0)
         THEN [ok |-> FALSE, value |-> Undefined,
               error |-> ErrorMessage(r.ret.mensagemRetorno)]
  ELSE [ok |-> TRUE, value |-> r.ret, error |-> ""]

\* normalize(returnedXML): the envelope returned, or the error thrown
normalize(r) ==
  IF ~r.parses THEN [ok |-> FALSE, value |-> Undefined, error |-> "parse error"]
  ELSE IF r.depth < PathLen
         THEN [ok |-> FALSE, value |-> Undefined, error |-> "TypeError"]
  ELSE IF parseInt(r.ret.codigoRetorno) # Num(0)
         THEN [ok |-> FALSE, value |-> Undefined,
               error |-> ErrorMessage(r.ret.mensagemRetorno)]
  ELSE [ok |-> TRUE, value |-> r.ret, error |-> ""]

(***************************************************************************)
(* State after the module is loaded: `configure()` has run, no search yet. *)
(***************************************************************************)
Init ==
  /\ opts = configureOpts(NoOptions)
  /\ supplied = NoOptions
  /\ pc = [s \in Calls |-> "idle"]
  /\ plate = [s \in Calls |-> <<>>]
  /\ plateToUse = [s \in Calls |-> <<>>]
  /\ ident = [s \in Calls |-> Undefined]
  /\ token = [s \in Calls |-> Undefined]
  /\ body = [s \in Calls |-> Undefined]
  /\ req = [s \in Calls |-> Undefined]
  /\ attempt = [s \in Calls |-> 0]
  /\ delay = [s \in Calls |-> 0]
  /\ slept = [s \in Calls |-> <<>>]
  /\ sent = [s \in Calls |-> <<>>]
  /\ raised = [s \in Calls |-> <<>>]
  /\ response = [s \in Calls |-> Undefined]
  /\ outcome = [s \in Calls |-> Undefined]

\* the promise search returned is pending
InFlight(s) == pc[s] \notin {"idle", "resolved", "rejected"}

\* an Error thrown by `thrower` with the given message
Error(thrower, message) == [thrower |-> thrower, message |-> message]

\* configure writing only the options it was given into the existing opts,
\* so that the others stay as an earlier call left them
ConfigureMerged(o) ==
  /\ opts' = [k \in DOMAIN opts |->
                IF k = "proxy"
                THEN IF o.proxy = Undefined THEN opts.proxy
                     ELSE configureOpts(o).proxy
                ELSE IF Truthy(o[k]) THEN o[k] ELSE opts[k]]
  /\ supplied' = o
  /\ UNCHANGED <<pc, plate, plateToUse, ident, token, body, req, attempt,
                 delay, slept, sent, raised, response, outcome>>

\* configure(o)
Configure(o) ==
  /\ opts' = configureOpts(o)
  /\ supplied' = o
  /\ UNCHANGED <<pc, plate, plateToUse, ident, token, body, req, attempt,
                 delay, slept, sent, raised, response, outcome>>

\* search going on after validate whatever it returned
SearchUnchecked(s, p) ==
  /\ pc[s] = "idle"
  /\ plate' = [plate EXCEPT ![s] = p]
  /\ plateToUse' = [plateToUse EXCEPT ![s] = validate(p).value]
  /\ pc' = [pc EXCEPT ![s] = "validated"]
  /\ UNCHANGED <<opts, supplied, ident, token, body, req, attempt, delay,
                 slept, sent, raised, response, outcome>>

\* search(p) up to generateBody's `await validate(plate)`; validate has no
\* await, so it has run when the call returns its promise
Search(s, p) ==
  /\ pc[s] = "idle"
  /\ plate' = [plate EXCEPT ![s] = p]
  /\ LET v == validate(p)
     IN IF v.ok
        THEN /\ plateToUse' = [plateToUse EXCEPT ![s] = v.value]
             /\ pc' = [pc EXCEPT ![s] = "validated"]
             /\ UNCHANGED outcome
        ELSE /\ pc' = [pc EXCEPT ![s] = "rejected"]
             /\ outcome' = [outcome EXCEPT ![s] = Error("validate", v.error)]
             /\ UNCHANGED plateToUse
  /\ UNCHANGED <<opts, supplied, ident, token, body, req, attempt, delay,
                 slept, sent, raised, response>>

\* generateBody from `await validate` to `await Promise.all`: the five
\* generators start here, and generateToken reads opts here.  r holds the
\* values Math.random() returns in the order of the calls: four for the
\* octets, two for the latitude, two for the longitude; now is the
\* formatted clock
Generate(s, r, now) ==
  /\ pc[s] = "validated"
  /\ ident' = [ident EXCEPT ![s] =
                 [ip |-> generateIPAddress(r),
                  latitude |-> generateLatitude(r[5], r[6]),
                  longitude |-> generateLongitude(r[7], r[8]),
                  date |-> now]]
  /\ token' = [token EXCEPT ![s] = generateToken(plateToUse[s])]
  /\ pc' = [pc EXCEPT ![s] = "generated"]
  /\ UNCHANGED <<opts, supplied, plate, plateToUse, body, req, attempt, delay,
                 slept, sent, raised, response, outcome>>

\* generateBody from `await Promise.all` to its return
Encode(s) ==
  /\ pc[s] = "generated"
  /\ body' = [body EXCEPT ![s] = bodyOf(s)]
  /\ pc' = [pc EXCEPT ![s] = "encoded"]
  /\ UNCHANGED <<opts, supplied, plate, plateToUse, ident, token, req, attempt,
                 delay, slept, sent, raised, response, outcome>>

\* search from `await generateBody` into request and retry's first
\* `await sleep(delay)`, with attempt = 0 and delay = 0
Request(s) ==
  /\ pc[s] = "encoded"
  /\ req' = [req EXCEPT ![s] = requestOf(s)]
  /\ attempt' = [attempt EXCEPT ![s] = 0]
  /\ delay' = [delay EXCEPT ![s] = 0]
  /\ slept' = [slept EXCEPT ![s] = <<0>>]
  /\ pc' = [pc EXCEPT ![s] = "sleeping"]
  /\ UNCHANGED <<opts, supplied, plate, plateToUse, ident, token, body, sent,
                 raised, response, outcome>>

\* the identity drawn again for every attempt
AttemptRegenerated(s) ==
  /\ pc[s] = "sleeping"
  /\ \E r \in {<<k, k, k, k>> : k \in {0, RandomDen - 1}} :
       sent' = [sent EXCEPT ![s] =
                  Append(sent[s],
                         [req[s] EXCEPT !.data.f = generateIPAddress(r)])]
  /\ pc' = [pc EXCEPT ![s] = "inflight"]
  /\ UNCHANGED <<opts, supplied, plate, plateToUse, ident, token, body, req,
                 attempt, delay, slept, raised, response, outcome>>

\* retry from `await sleep(delay)` to `await axios.request`
Attempt(s) ==
  /\ pc[s] = "sleeping"
  /\ sent' = [sent EXCEPT ![s] = Append(sent[s], req[s])]
  /\ pc' = [pc EXCEPT ![s] = "inflight"]
  /\ UNCHANGED <<opts, supplied, plate, plateToUse, ident, token, body, req,
                 attempt, delay, slept, raised, response, outcome>>

\* the delay doubled without its 1000 ms floor
nextDelayNoFloor(d) == d * 2

\* the delay retry passes on: (delay || 1000) * 2
nextDelay(d) == (IF d # 0 THEN d ELSE 1000) * 2

\* the ceiling reached one attempt early
exhaustedEarly(a) == a + 1 >= opts.maximumRetry.v

\* the ceiling compared off by one
exhaustedLate(a) == a > opts.maximumRetry.v

\* retry's `attempt >= opts.maximumRetry`
exhausted(a) == a >= opts.maximumRetry.v

\* the error of the first attempt kept and thrown when the ceiling is reached
FailFirstError(s, e) ==
  /\ pc[s] = "inflight"
  /\ raised' = [raised EXCEPT ![s] = Append(raised[s], e)]
  /\ IF exhausted(attempt[s])
     THEN /\ pc' = [pc EXCEPT ![s] = "rejected"]
          /\ outcome' = [outcome EXCEPT ![s] =
                           Error("axios", Append(raised[s], e)[1])]
          /\ UNCHANGED <<attempt, delay, slept>>
     ELSE /\ attempt' = [attempt EXCEPT ![s] = attempt[s] + 1]
          /\ delay' = [delay EXCEPT ![s] = nextDelay(delay[s])]
          /\ slept' = [slept EXCEPT ![s] =
                         Append(slept[s], nextDelay(delay[s]))]
          /\ pc' = [pc EXCEPT ![s] = "sleeping"]
          /\ UNCHANGED outcome
  /\ UNCHANGED <<opts, supplied, plate, plateToUse, ident, token, body, req,
                 sent, response>>

\* the next attempt started from the catch block without awaiting the sleep
FailNoBackoff(s, e) ==
  /\ pc[s] = "inflight"
  /\ raised' = [raised EXCEPT ![s] = Append(raised[s], e)]
  /\ IF exhausted(attempt[s])
     THEN /\ pc' = [pc EXCEPT ![s] = "rejected"]
          /\ outcome' = [outcome EXCEPT ![s] = Error("axios", e)]
          /\ UNCHANGED <<attempt, delay, slept, sent>>
     ELSE /\ attempt' = [attempt EXCEPT ![s] = attempt[s] + 1]
          /\ delay' = [delay EXCEPT ![s] = nextDelay(delay[s])]
          /\ slept' = [slept EXCEPT ![s] =
                         Append(slept[s], nextDelay(delay[s]))]
          /\ sent' = [sent EXCEPT ![s] = Append(sent[s], req[s])]
          /\ pc' = [pc EXCEPT ![s] = "inflight"]
          /\ UNCHANGED outcome
  /\ UNCHANGED <<opts, supplied, plate, plateToUse, ident, token, body, req,
                 response>>

\* the attempt number passed on unchanged: retry(url, options, attempt, ...)
FailNoIncrement(s, e) ==
  /\ pc[s] = "inflight"
  /\ raised' = [raised EXCEPT ![s] = Append(raised[s], e)]
  /\ IF exhausted(attempt[s])
     THEN /\ pc' = [pc EXCEPT ![s] = "rejected"]
          /\ outcome' = [outcome EXCEPT ![s] = Error("axios", e)]
          /\ UNCHANGED <<delay, slept>>
     ELSE /\ delay' = [delay EXCEPT ![s] = nextDelay(delay[s])]
          /\ slept' = [slept EXCEPT ![s] =
                         Append(slept[s], nextDelay(delay[s]))]
          /\ pc' = [pc EXCEPT ![s] = "sleeping"]
          /\ UNCHANGED outcome
  /\ UNCHANGED <<opts, supplied, plate, plateToUse, ident, token, body, req,
                 attempt, sent, response>>

\* axios.request rejects with e: retry's catch block
Fail(s, e) ==
  /\ pc[s] = "inflight"
  /\ raised' = [raised EXCEPT ![s] = Append(raised[s], e)]
  /\ IF exhausted(attempt[s])
     THEN /\ pc' = [pc EXCEPT ![s] = "rejected"]
          /\ outcome' = [outcome EXCEPT ![s] = Error("axios", e)]
          /\ UNCHANGED <<attempt, delay, slept>>
     ELSE /\ attempt' = [attempt EXCEPT ![s] = attempt[s] + 1]
          /\ delay' = [delay EXCEPT ![s] = nextDelay(delay[s])]
          /\ slept' = [slept EXCEPT ![s] = Append(slept[s], nextDelay(delay[s]))]
          /\ pc' = [pc EXCEPT ![s] = "sleeping"]
          /\ UNCHANGED outcome
  /\ UNCHANGED <<opts, supplied, plate, plateToUse, ident, token, body, req,
                 sent, response>>

\* axios.request resolves with data r: retry returns it, request hands it to
\* normalize, which awaits the parser
Respond(s, r) ==
  /\ pc[s] = "inflight"
  /\ response' = [response EXCEPT ![s] = r]
  /\ pc' = [pc EXCEPT ![s] = "decoding"]
  /\ UNCHANGED <<opts, supplied, plate, plateToUse, ident, token, body, req,
                 attempt, delay, slept, sent, raised, outcome>>

\* normalize called inside retry's try block: a decoding error is caught like
\* a transport error and the request is sent again
DecodeRetried(s) ==
  /\ pc[s] = "decoding"
  /\ LET n == normalize(response[s])
     IN IF n.ok
        THEN /\ pc' = [pc EXCEPT ![s] = "resolved"]
             /\ outcome' = [outcome EXCEPT ![s] = n.value]
             /\ UNCHANGED <<attempt, delay, slept>>
        ELSE IF exhausted(attempt[s])
        THEN /\ pc' = [pc EXCEPT ![s] = "rejected"]
             /\ outcome' = [outcome EXCEPT ![s] = Error("normalize", n.error)]
             /\ UNCHANGED <<attempt, delay, slept>>
        ELSE /\ attempt' = [attempt EXCEPT ![s] = attempt[s] + 1]
             /\ delay' = [delay EXCEPT ![s] = nextDelay(delay[s])]
             /\ slept' = [slept EXCEPT ![s] =
                            Append(slept[s], nextDelay(delay[s]))]
             /\ pc' = [pc EXCEPT ![s] = "sleeping"]
             /\ UNCHANGED outcome
  /\ UNCHANGED <<opts, supplied, plate, plateToUse, ident, token, body, req,
                 sent, raised, response>>

\* normalize after the parser: search settles with its result
Decode(s) ==
  /\ pc[s] = "decoding"
  /\ LET n == normalize(response[s])
     IN IF n.ok
        THEN /\ pc' = [pc EXCEPT ![s] = "resolved"]
             /\ outcome' = [outcome EXCEPT ![s] = n.value]
        ELSE /\ pc' = [pc EXCEPT ![s] = "rejected"]
             /\ outcome' = [outcome EXCEPT ![s] = Error("normalize", n.error)]
  /\ UNCHANGED <<opts, supplied, plate, plateToUse, ident, token, body, req,
                 attempt, delay, slept, sent, raised, response>>

(***************************************************************************)
(* The caller: what it passes to configure and search, and what the         *)
(* transport, the random source and the clock give back.                   *)
(***************************************************************************)
\* "AAA-7777" and "AA7777"
Plates == {<<"A", "A", "A", "-", "7", "7", "7", "7">>, <<"A", "A", "7", "7", "7", "7">>}

Customized ==
  [host |-> Str("127.0.0.1"), endpoint |-> Str("/mock/"),
   serviceVersion |-> Str("v5"), androidVersion |-> Str("9.0"),
   secret |-> Str("s3cr3t"), timeout |-> Num(5000), maximumRetry |-> Num(MaxRetry),
   proxy |-> [host |-> Str("proxy.local"), port |-> Num(8080)]]

ConfigureInputs == {NoOptions, Customized}

RandomInputs == {<<k, k, k, k, k, k, k, k>> : k \in {RandomDen - 1}}

ClockInputs == {"2019-01-01 00:00:00"}

TransportErrors == {"ECONNREFUSED"}

\* a response document: whether it parses, how many elements of the path
\* soap:Envelope, soap:Body, ns2:getStatusResponse, return it holds, and the
\* return value
Document(parses, depth, ret) == [parses |-> parses, depth |-> depth, ret |-> ret]

Return(codigo, mensagem) ==
  [codigoRetorno |-> codigo, mensagemRetorno |-> mensagem, modelo |-> Str("GOL")]

Chars(s) == [t |-> "string", v |-> s]

Responses ==
  {Document(TRUE, PathLen, Return(Chars(<<"0">>), Str("Sem erros."))),
   Document(TRUE, PathLen, Return(Chars(<<"7">>), Str("Placa invalida"))),
   Document(TRUE, PathLen - 1, Undefined)}

\* search calls, with configure calls at any await
Next ==
  \/ \E o \in ConfigureInputs : Configure(o)
  \/ \E s \in Calls, p \in Plates : Search(s, p)
  \/ \E s \in Calls, r \in RandomInputs, now \in ClockInputs : Generate(s, r, now)
  \/ \E s \in Calls : Encode(s)
  \/ \E s \in Calls : Request(s)
  \/ \E s \in Calls : Attempt(s)
  \/ \E s \in Calls, e \in TransportErrors : Fail(s, e)
  \/ \E s \in Calls, r \in Responses : Respond(s, r)
  \/ \E s \in Calls : Decode(s)

Spec == Init /\ [][Next]_vars

\* no search call is in flight
Quiet == \A s \in Calls : ~InFlight(s)

QuietConfigureInputs ==
  {[NoOptions EXCEPT !.maximumRetry = r, !.timeout = t] :
     r \in {Undefined} \cup {Num(n) : n \in 0..MaxRetry},
     t \in {Undefined, Num(0), Num(5000)}}
  \cup {Customized}

\* search calls, with configure calls only between them
NextQuiet ==
  \/ \E o \in QuietConfigureInputs : Quiet /\ Configure(o)
  \/ \E s \in Calls, p \in Plates : Search(s, p)
  \/ \E s \in Calls, r \in RandomInputs, now \in ClockInputs : Generate(s, r, now)
  \/ \E s \in Calls : Encode(s)
  \/ \E s \in Calls : Request(s)
  \/ \E s \in Calls : Attempt(s)
  \/ \E s \in Calls, e \in TransportErrors : Fail(s, e)
  \/ \E s \in Calls, r \in Responses : Respond(s, r)
  \/ \E s \in Calls : Decode(s)

SpecQuiet == Init /\ [][NextQuiet]_vars

(***************************************************************************)
(* validate on every string of at most MaxPlateLen characters.             *)
(***************************************************************************)
\* the call the single-call specifications follow
TheCall == CHOOSE s \in Calls : \A u \in Calls : s <= u

RawPlates == UNION {[1..n -> Alphabet] : n \in 0..MaxPlateLen}

NextValidate == pc[TheCall] = "idle" /\ \E p \in RawPlates : Search(TheCall, p)

SpecValidate == Init /\ [][NextValidate]_vars

\* the string without its non-alphanumeric characters
StripAll(s) == SelectSeq(s, LAMBDA c : c \in Letters \cup Digits)

\* exactly 3 letters followed by 4 digits
IsPlate(s) ==
  /\ Len(s) = 7
  /\ \A i \in 1..3 : s[i] \in Letters
  /\ \A i \in 4..7 : s[i] \in Digits

\* C4: validate accepts exactly the strings that are 3 letters and 4 digits
\* once all their non-alphanumeric characters are removed, and returns that
\* 7-character string; it rejects every other string with a validation error.
C4_ValidateStripsEverySpecial ==
  \A s \in Calls :
    pc[s] # "idle" =>
      IF IsPlate(StripAll(plate[s]))
      THEN pc[s] = "validated" /\ plateToUse[s] = StripAll(plate[s])
      ELSE pc[s] = "rejected" /\ outcome[s] = Error("validate", ValidationMessage)

(***************************************************************************)
(* configure with every options object that supplies at most MaxSupplied   *)
(* options.                                                                *)
(***************************************************************************)
StringOptions == {"host", "endpoint", "serviceVersion", "androidVersion", "secret"}

NumberOptions == {"timeout", "maximumRetry"}

ProxyValues ==
  {[host |-> Undefined, port |-> Undefined],
   [host |-> Str("proxy.local"), port |-> Undefined],
   [host |-> Str("proxy.local"), port |-> Num(8080)],
   [host |-> Str(""), port |-> Num(0)]}

AllOptions ==
  {o \in [host : {Undefined, Str(""), Str("127.0.0.1")},
          endpoint : {Undefined, Str(""), Str("/mock/")},
          serviceVersion : {Undefined, Str(""), Str("v5")},
          androidVersion : {Undefined, Str(""), Str("9.0")},
          secret : {Undefined, Str(""), Str("s3cr3t")},
          timeout : {Undefined, Num(0), Num(5000)},
          maximumRetry : {Undefined} \cup {Num(n) : n \in 0..MaxRetry},
          proxy : {Undefined} \cup ProxyValues] :
     Cardinality({k \in DOMAIN o : o[k] # Undefined}) <= MaxSupplied}

NextConfigure == \E o \in AllOptions : Configure(o)

SpecConfigure == Init /\ [][NextConfigure]_vars

\* the proxy object after the parameter default `proxy = {}`
SuppliedProxy ==
  IF supplied.proxy = Undefined THEN [host |-> Undefined, port |-> Undefined]
  ELSE supplied.proxy

\* C5: after any configure call every option of the active configuration is
\* the supplied value when it was supplied truthy and that option's own
\* documented default otherwise.
C5_EveryOptionOwnDefault ==
  /\ \A k \in StringOptions \cup NumberOptions :
       opts[k] = IF Truthy(supplied[k]) THEN supplied[k] ELSE DEFAULT[k]
  /\ \A k \in {"host", "port"} :
       opts.proxy[k] = IF Truthy(SuppliedProxy[k]) THEN SuppliedProxy[k]
                       ELSE DEFAULT.proxy[k]

(***************************************************************************)
(* The retry loop, with configure calls only between searches.             *)
(***************************************************************************)
\* C1: with maximumRetry = N and no configure call during the search, a
\* search whose every transport attempt fails rejects after exactly N+1
\* attempts: it never makes more than N+1 attempts, and the transport
\* failure that rejects it is that of attempt N+1.
C1_ExactlyNPlusOneAttempts ==
  /\ [](\A s \in Calls : InFlight(s) => Len(sent[s]) <= opts.maximumRetry.v + 1)
  /\ [][\A s \in Calls :
          (pc[s] = "inflight" /\ pc'[s] = "rejected") =>
            /\ outcome'[s] \in {Error("axios", e) : e \in TransportErrors}
            /\ Len(sent'[s]) = opts.maximumRetry.v + 1]_vars

C1_Witness ==
  \E s \in Calls :
    /\ pc[s] = "rejected"
    /\ outcome[s] \in {Error("axios", e) : e \in TransportErrors}
    /\ opts.maximumRetry = Num(MaxRetry)
    /\ Len(sent[s]) = MaxRetry + 1

\* a well-formed response with return code 0
WellFormedZero(r) ==
  r.parses /\ r.depth = PathLen /\ r.ret.codigoRetorno = Chars(<<"0">>)

\* C2: when the transport fails the first k <= maximumRetry attempts and
\* answers attempt k+1 with a well-formed response of return code 0, the
\* search resolves and the transport was invoked exactly k+1 times: a failure
\* of an attempt below the ceiling leads to another attempt, the response
\* ends the attempts, and decoding it resolves the search.
C2_ResolvesAfterKFailures ==
  /\ [](\A s \in Calls :
          pc[s] \in {"inflight", "decoding", "resolved"} =>
            Len(sent[s]) = attempt[s] + 1)
  /\ [][\A s \in Calls :
          /\ (pc[s] = "inflight" /\ attempt[s] < opts.maximumRetry.v
                /\ pc'[s] # "inflight") =>
               pc'[s] \in {"sleeping", "decoding"}
          /\ (pc[s] = "decoding" /\ WellFormedZero(response[s])
                /\ pc'[s] # "decoding") =>
               pc'[s] = "resolved" /\ outcome'[s] = response[s].ret
          /\ pc[s] \in {"decoding", "resolved"} =>
               sent'[s] = sent[s] /\ attempt'[s] = attempt[s]]_vars

C2_Witness ==
  \E s \in Calls :
    /\ pc[s] = "resolved"
    /\ WellFormedZero(response[s])
    /\ attempt[s] = MaxRetry
    /\ Len(sent[s]) = MaxRetry + 1

\* the delay the claim gives for attempt i, counted from 0
Backoff(i) == IF i = 0 THEN 0 ELSE 1000 * 2 ^ i

\* C3: within one retry sequence the delay waited before attempt 0 is 0 ms
\* and the delay before attempt i >= 1 is 1000 * 2^i ms (0, 2000, 4000,
\* 8000, ...), each delay after the first retry being double the previous
\* one; every attempt is preceded by its sleep.
C3_BackoffDelays ==
  \A s \in Calls :
    /\ \A i \in 1..Len(slept[s]) : slept[s][i] = Backoff(i - 1)
    /\ \A i \in 3..Len(slept[s]) : slept[s][i] = 2 * slept[s][i - 1]
    /\ pc[s] \in {"sleeping", "inflight"} =>
         delay[s] = Backoff(attempt[s]) /\ Len(slept[s]) = attempt[s] + 1
    /\ pc[s] = "sleeping" => Len(sent[s]) = Len(slept[s]) - 1
    /\ pc[s] = "inflight" => Len(sent[s]) = Len(slept[s])

C3_Witness ==
  \E s \in Calls :
    pc[s] = "inflight" /\ attempt[s] = 2 /\ slept[s] = <<0, 2000, 4000>>

\* C6: after configure({maximumRetry: R, timeout: T}) and with no further
\* configure call, a search passes timeout T to every transport attempt, the
\* first and every retry, and applies R as the ceiling at every failure: a
\* failure of an attempt below R is retried, the failure of attempt R rejects.
C6_ConfiguredRetryAndTimeout ==
  /\ [](\A s \in Calls :
          (InFlight(s) /\ supplied.timeout # Undefined) =>
            \A i \in 1..Len(sent[s]) : sent[s][i].timeout = supplied.timeout)
  /\ [][\A s \in Calls :
          supplied.maximumRetry # Undefined =>
            /\ (pc[s] = "inflight" /\ pc'[s] = "rejected") =>
                 attempt[s] = supplied.maximumRetry.v
            /\ (pc[s] = "inflight" /\ pc'[s] = "sleeping") =>
                 attempt[s] < supplied.maximumRetry.v]_vars

C6_Witness ==
  \E s \in Calls :
    /\ supplied.maximumRetry = Num(MaxRetry)
    /\ supplied.timeout = Num(5000)
    /\ pc[s] = "inflight"
    /\ attempt[s] = MaxRetry
    /\ Len(sent[s]) = MaxRetry + 1
    /\ \A i \in 1..Len(sent[s]) : sent[s][i].timeout = Num(5000)

(***************************************************************************)
(* A search with configure calls at its awaits.                            *)
(***************************************************************************)
\* the configurations the caller sets
Configurations == {configureOpts(o) : o \in ConfigureInputs}

\* everything the call has derived from the configuration so far is what
\* configuration c gives
UsesOnly(s, c) ==
  /\ token[s] # Undefined =>
       token[s] = createHmac(Join(plateToUse[s]) \o "#" \o TemplateString(c.androidVersion)
                               \o "#" \o TemplateString(c.secret),
                             Join(plateToUse[s]))
  /\ body[s] # Undefined => body[s].d = c.androidVersion
  /\ req[s] # Undefined =>
       /\ req[s].url = "https://" \o TemplateString(c.host) \o TemplateString(c.endpoint)
                         \o TemplateString(c.serviceVersion)
       /\ req[s].headers.Host = c.host
       /\ req[s].timeout = c.timeout
       /\ (req[s].httpsAgent # Null) = Truthy(c.proxy.host)
  /\ Len(sent[s]) <= c.maximumRetry.v + 1

\* C7: the configuration is immutable for the duration of a search call: all
\* the configuration-derived values one search uses (token key, header,
\* URL, Host header, timeout, proxy, retry ceiling) come from one single
\* configuration, whatever configure calls run at its awaits.
C7_OneConfigurationPerSearch ==
  \A s \in Calls : \E c \in Configurations : UsesOnly(s, c)

\* the stage changes of one search call, in order
StageOrder ==
  {<<"idle", "validated">>, <<"idle", "rejected">>,
   <<"validated", "generated">>, <<"generated", "encoded">>,
   <<"encoded", "sleeping">>, <<"sleeping", "inflight">>,
   <<"inflight", "sleeping">>, <<"inflight", "rejected">>,
   <<"inflight", "decoding">>, <<"decoding", "resolved">>,
   <<"decoding", "rejected">>}

\* what the stages of call s have produced so far is what the stages before
\* them produced first
StagesInOrder(s) ==
  /\ plateToUse[s] # <<>> => validate(plate[s]) = [ok |-> TRUE, value |-> plateToUse[s], error |-> ""]
  /\ (token[s] # Undefined \/ ident[s] # Undefined) =>
       plateToUse[s] # <<>> /\ token[s] # Undefined /\ ident[s] # Undefined
  /\ body[s] # Undefined =>
       token[s] # Undefined /\ body[s].g = token[s] /\ body[s].a = plateToUse[s]
  /\ req[s] # Undefined => body[s] # Undefined /\ req[s].data = body[s]
  /\ sent[s] # <<>> => req[s] # Undefined
  /\ response[s] # Undefined => sent[s] # <<>>
  /\ pc[s] = "resolved" => response[s] # Undefined
  /\ pc[s] = "rejected" =>
       \/ /\ outcome[s] = Error("validate", ValidationMessage)
          /\ plateToUse[s] = <<>> /\ token[s] = Undefined /\ body[s] = Undefined
          /\ req[s] = Undefined /\ slept[s] = <<>> /\ sent[s] = <<>>
          /\ response[s] = Undefined
       \/ /\ outcome[s] \in {Error("axios", e) : e \in TransportErrors}
          /\ sent[s] # <<>> /\ response[s] = Undefined
       \/ /\ outcome[s] = Error("normalize", normalize(response[s]).error)
          /\ response[s] # Undefined

\* C9: search runs validate, generate, encode, transport and decode in this
\* order and rejects with the first error raised by any stage without
\* running a later stage; a plate that fails validation rejects the search
\* with the validation error and no transport attempt is ever made for it.
C9_StagesInOrderFirstErrorWins ==
  /\ [](\A s \in Calls :
          /\ StagesInOrder(s)
          /\ (pc[s] # "idle" /\ ~validate(plate[s]).ok) =>
               /\ pc[s] = "rejected"
               /\ outcome[s] = Error("validate", ValidationMessage)
               /\ sent[s] = <<>>)
  /\ [][\A s \in Calls :
          /\ pc'[s] # pc[s] => <<pc[s], pc'[s]>> \in StageOrder
          /\ pc[s] \in {"resolved", "rejected"} =>
               UNCHANGED <<pc[s], plate[s], plateToUse[s], ident[s], token[s],
                           body[s], req[s], attempt[s], delay[s], slept[s],
                           sent[s], response[s], outcome[s]>>]_vars

C9_Witness ==
  \E s \in Calls :
    /\ plate[s] = <<"A", "A", "7", "7", "7", "7">>
    /\ pc[s] = "rejected"
    /\ outcome[s] = Error("validate", ValidationMessage)
    /\ sent[s] = <<>>

(***************************************************************************)
(* One search whose transport answers with any response document.          *)
(***************************************************************************)
CodeAlphabet == {"0", "7", "-", " ", "x"}

CodeTexts == UNION {[1..n -> CodeAlphabet] : n \in 0..MaxCodeLen}

AllResponses ==
  {Document(TRUE, PathLen, Return(c, m)) :
     c \in {Undefined} \cup {Chars(x) : x \in CodeTexts},
     m \in {Undefined, Str(""), Str("Placa invalida")}}
  \cup {Document(TRUE, d, Undefined) : d \in 0..(PathLen - 1)}
  \cup {Document(FALSE, 0, Undefined)}

NextNormalize ==
  \/ \E p \in Plates : Search(TheCall, p)
  \/ \E r \in RandomInputs, now \in ClockInputs : Generate(TheCall, r, now)
  \/ Encode(TheCall)
  \/ Request(TheCall)
  \/ Attempt(TheCall)
  \/ pc[TheCall] = "inflight" /\ \E r \in AllResponses : Respond(TheCall, r)
  \/ Decode(TheCall)

SpecNormalize == Init /\ [][NextNormalize]_vars

\* the text of an integer: an optional minus sign, then digits
IsIntegerText(c) ==
  /\ c # Undefined
  /\ LET digits == IF c.v # <<>> /\ Head(c.v) = "-" THEN Tail(c.v) ELSE c.v
     IN digits # <<>> /\ \A i \in 1..Len(digits) : digits[i] \in {"0", "7"}

\* the integer is zero: none of its digits is another digit than 0
IsZeroText(c) == \A i \in 1..Len(c.v) : c.v[i] \in {"0", "-"}

\* the whole path, an integer return code and a status message are there
WellFormed(r) ==
  /\ r.parses
  /\ r.depth = PathLen
  /\ IsIntegerText(r.ret.codigoRetorno)
  /\ r.ret.mensagemRetorno # Undefined

\* C8: for a structurally well-formed response, a non-zero return code makes
\* decoding fail with an error whose message is the response's status
\* message, and no record is returned; a zero return code makes decoding
\* succeed with a record that holds every field of the return value verbatim.
C8_DecodeByReturnCode ==
  \A s \in Calls :
    (pc[s] \in {"resolved", "rejected"} /\ response[s] # Undefined
       /\ WellFormed(response[s])) =>
      IF IsZeroText(response[s].ret.codigoRetorno)
      THEN /\ pc[s] = "resolved"
           /\ DOMAIN outcome[s] = DOMAIN response[s].ret
           /\ \A f \in DOMAIN response[s].ret : outcome[s][f] = response[s].ret[f]
      ELSE /\ pc[s] = "rejected"
           /\ outcome[s] = Error("normalize", response[s].ret.mensagemRetorno.v)

C8_Witness ==
  \E s \in Calls :
    /\ pc[s] = "rejected"
    /\ response[s] = Document(TRUE, PathLen, Return(Chars(<<"7">>), Str("Placa invalida")))
    /\ outcome[s] = Error("normalize", "Placa invalida")

(***************************************************************************)
(* Token generation under configurations that differ in every option.      *)
(***************************************************************************)
\* "AAA-7777" and "\nAAA7777\n": validate returns "AAA7777" and "AAA7777\n"
TokenPlates ==
  {<<"A", "A", "A", "-", "7", "7", "7", "7">>,
   <<"\n", "A", "A", "A", "7", "7", "7", "7", "\n">>}

TokenOptions ==
  [host : {Undefined, Str("127.0.0.1")},
   endpoint : {Undefined},
   serviceVersion : {Undefined, Str("v5")},
   androidVersion : {Undefined, Str(""), Str("9.0")},
   secret : {Undefined, Str("s3cr3t")},
   timeout : {Undefined, Num(5000)},
   maximumRetry : {Undefined, Num(MaxRetry)},
   proxy : {Undefined}]

NextToken ==
  \/ \E o \in TokenOptions : Configure(o)
  \/ \E p \in TokenPlates : Search(TheCall, p)
  \/ \E r \in RandomInputs, now \in ClockInputs : Generate(TheCall, r, now)

SpecToken == Init /\ [][NextToken]_vars

\* the plates validate returns for TokenPlates
ValidatedTokenPlates ==
  {<<"A", "A", "A", "7", "7", "7", "7">>,
   <<"A", "A", "A", "7", "7", "7", "7", "\n">>}

\* C10: the token is a function of (plate, androidVersion, secret) only: the
\* token a search generates is the keyed hash with key
\* plate + '#' + androidVersion + '#' + secret and message plate, and
\* generateToken gives the same token for the same plate under two
\* configurations that agree on androidVersion and secret, whatever their
\* other options, the clock, the random source and the calls before.
C10_TokenOfPlateVersionSecret ==
  [][/\ \A s \in Calls :
          (pc[s] = "validated" /\ pc'[s] = "generated") =>
            token'[s] = createHmac(Join(plateToUse[s]) \o "#" \o opts.androidVersion.v
                                     \o "#" \o opts.secret.v,
                                   Join(plateToUse[s]))
     /\ (opts'.androidVersion = opts.androidVersion /\ opts'.secret = opts.secret) =>
          \A p \in ValidatedTokenPlates : generateToken(p)' = generateToken(p)]_vars

C10_Witness ==
  \E s \in Calls :
    /\ pc[s] = "generated"
    /\ plateToUse[s] = <<"A", "A", "A", "7", "7", "7", "7">>
    /\ token[s] = createHmac("AAA7777#9.0#s3cr3t", "AAA7777")
    /\ opts.timeout = Num(5000)

(***************************************************************************)
(* C11.  Only transport failures are retried.                              *)
(***************************************************************************)

\* the transport has returned a response to search s
Responded(s) == response[s] # Undefined

\* C11: once a transport attempt of a search has returned a response, the
\* search makes no further transport attempt and starts no further backoff,
\* whatever decoding does and however many attempts maximumRetry still
\* allows; a response that fails to decode rejects the search with the
\* decoding error in the very step that decodes it.
C11_RetryOnlyTransportFailures ==
  [][\A s \in Calls :
       /\ Responded(s) =>
            /\ sent'[s] = sent[s]
            /\ slept'[s] = slept[s]
            /\ attempt'[s] = attempt[s]
            /\ response'[s] = response[s]
            /\ pc'[s] \in {"decoding", "resolved", "rejected"}
       /\ (pc[s] = "decoding" /\ pc'[s] # "decoding"
             /\ ~normalize(response[s]).ok) =>
            /\ pc'[s] = "rejected"
            /\ outcome'[s] = Error("normalize", normalize(response[s]).error)]_vars

\* a search rejected with a decoding error after its first attempt while
\* maximumRetry allowed more
C11_Witness ==
  \E s \in Calls :
    /\ pc[s] = "rejected"
    /\ Responded(s)
    /\ outcome[s] = Error("normalize", normalize(response[s]).error)
    /\ Len(sent[s]) = 1
    /\ attempt[s] < opts.maximumRetry.v

(***************************************************************************)
(* C12.  The error of an exhausted search is the last attempt's error.     *)
(* One search whose attempts fail with errors that differ from attempt to  *)
(* attempt, configure being called between searches only.                  *)
(***************************************************************************)

\* the errors axios.request rejects with
AllTransportErrors == {"ECONNREFUSED", "ETIMEDOUT"}

NextErrors ==
  \/ Quiet /\ \E o \in QuietConfigureInputs : Configure(o)
  \/ \E p \in Plates : Search(TheCall, p)
  \/ \E r \in RandomInputs, now \in ClockInputs : Generate(TheCall, r, now)
  \/ Encode(TheCall)
  \/ Request(TheCall)
  \/ Attempt(TheCall)
  \/ \E e \in AllTransportErrors : Fail(TheCall, e)
  \/ \E r \in Responses : Respond(TheCall, r)
  \/ Decode(TheCall)

SpecErrors == Init /\ [][NextErrors]_vars

\* every attempt of search s has failed
AllAttemptsFailed(s) == Len(sent[s]) > 0 /\ Len(raised[s]) = Len(sent[s])

\* C12: a search whose attempts have all failed is rejected, and the error it
\* is rejected with is exactly the error the last attempt raised, whatever
\* the earlier attempts raised; the step that rejects it is the failure of
\* attempt maximumRetry + 1.
C12_LastErrorPropagates ==
  /\ [](\A s \in Calls :
         (~InFlight(s) /\ AllAttemptsFailed(s)) =>
           /\ pc[s] = "rejected"
           /\ outcome[s] = Error("axios", raised[s][Len(raised[s])]))
  /\ [][\A s \in Calls :
         (pc[s] = "inflight" /\ pc'[s] = "rejected") =>
           /\ Len(sent[s]) = opts.maximumRetry.v + 1
           /\ Len(raised'[s]) = Len(sent[s])
           /\ outcome'[s] = Error("axios", raised'[s][Len(raised'[s])])]_vars

\* a search rejected after several failed attempts, the first and the last
\* with different errors
C12_Witness ==
  \E s \in Calls :
    /\ pc[s] = "rejected"
    /\ AllAttemptsFailed(s)
    /\ Len(raised[s]) = MaxRetry + 1
    /\ raised[s][1] # raised[s][Len(raised[s])]
    /\ outcome[s] = Error("axios", raised[s][Len(raised[s])])

(***************************************************************************)
(* C13.  One transport attempt at a time per search.  Several searches run *)
(* concurrently here, their awaits interleaved in every order; configure   *)
(* is called between searches only.                                        *)
(***************************************************************************)

\* the searches running concurrently
NConcurrent == 2

PairCalls == 1..NConcurrent

InitPair ==
  /\ opts = configureOpts(NoOptions)
  /\ supplied = NoOptions
  /\ pc = [s \in PairCalls |-> "idle"]
  /\ plate = [s \in PairCalls |-> <<>>]
  /\ plateToUse = [s \in PairCalls |-> <<>>]
  /\ ident = [s \in PairCalls |-> Undefined]
  /\ token = [s \in PairCalls |-> Undefined]
  /\ body = [s \in PairCalls |-> Undefined]
  /\ req = [s \in PairCalls |-> Undefined]
  /\ attempt = [s \in PairCalls |-> 0]
  /\ delay = [s \in PairCalls |-> 0]
  /\ slept = [s \in PairCalls |-> <<>>]
  /\ sent = [s \in PairCalls |-> <<>>]
  /\ raised = [s \in PairCalls |-> <<>>]
  /\ response = [s \in PairCalls |-> Undefined]
  /\ outcome = [s \in PairCalls |-> Undefined]

\* no search of the concurrent ones is in flight
QuietPair == \A s \in PairCalls : ~InFlight(s)

PairPlates == {<<"A", "A", "A", "7", "7", "7", "7">>}

PairConfigureInputs ==
  {NoOptions, [NoOptions EXCEPT !.maximumRetry = Num(MaxRetry)]}

\* the lowest and the highest value of the random source, for all draws
PairRandomInputs ==
  {<<k, k, k, k, k, k, k, k>> : k \in {0, RandomDen - 1}}

PairResponses ==
  {Document(TRUE, PathLen, Return(Chars(<<"0">>), Str("Sem erros.")))}

NextPair ==
  \/ QuietPair /\ \E o \in PairConfigureInputs : Configure(o)
  \/ \E s \in PairCalls :
       \/ \E p \in PairPlates : Search(s, p)
       \/ \E r \in PairRandomInputs, now \in ClockInputs : Generate(s, r, now)
       \/ Encode(s)
       \/ Request(s)
       \/ Attempt(s)
       \/ \E e \in TransportErrors : Fail(s, e)
       \/ \E r \in PairResponses : Respond(s, r)
       \/ Decode(s)

SpecPair == InitPair /\ [][NextPair]_vars

\* the transport attempts of search s that have neither failed nor returned
Pending(s) ==
  Len(sent[s]) - Len(raised[s]) - (IF Responded(s) THEN 1 ELSE 0)

\* C13: every search has at most one transport attempt pending, and exactly
\* one while it waits for the transport; an attempt starts only when all
\* earlier attempts of the same search have failed and the sleep for this
\* attempt has been started and has completed; a failure moves only the
\* attempt counter and the delay of the search it belongs to.
C13_OneAttemptAtATime ==
  /\ [](\A s \in PairCalls :
         /\ Pending(s) \in {0, 1}
         /\ Pending(s) = 1 <=> pc[s] = "inflight")
  /\ [][\A s \in PairCalls :
         /\ sent'[s] # sent[s] =>
              /\ pc[s] = "sleeping"
              /\ Pending(s) = 0 /\ ~Responded(s)
              /\ Len(raised[s]) = Len(sent[s])
              /\ Len(slept[s]) = Len(sent[s]) + 1
              /\ slept[s][Len(slept[s])] = delay[s]
              /\ Len(sent'[s]) = Len(sent[s]) + 1
         /\ (attempt'[s] # attempt[s] \/ delay'[s] # delay[s]) =>
              \A u \in PairCalls \ {s} :
                attempt'[u] = attempt[u] /\ delay'[u] = delay[u]]_vars

\* two searches each waiting for a retried attempt, at different attempt
\* numbers and delays
C13_Witness ==
  \E s, u \in PairCalls :
    /\ pc[s] = "inflight" /\ pc[u] = "inflight"
    /\ attempt[s] = 1 /\ attempt[u] = 2
    /\ delay[s] # delay[u]
    /\ Pending(s) = 1 /\ Pending(u) = 1

(***************************************************************************)
(* C14.  Every search settles.  The concurrent searches again, now with    *)
(* the event loop's guarantee that a search whose await can complete does  *)
(* complete: promises resolved by the code itself are resumed, and the     *)
(* claim grants that every sleep ends and every transport attempt either   *)
(* fails or returns.                                                       *)
(***************************************************************************)

\* search s resumes from the await it is suspended at
Resume(s) ==
  \/ \E r \in RandomInputs, now \in ClockInputs : Generate(s, r, now)
  \/ Encode(s)
  \/ Request(s)
  \/ Attempt(s)
  \/ \E e \in TransportErrors : Fail(s, e)
  \/ \E r \in PairResponses : Respond(s, r)
  \/ Decode(s)

NextSettle ==
  \/ QuietPair /\ \E o \in PairConfigureInputs : Configure(o)
  \/ \E s \in PairCalls :
       \/ \E p \in PairPlates : Search(s, p)
       \/ Resume(s)

SpecSettle ==
  InitPair /\ [][NextSettle]_vars /\ \A s \in PairCalls : WF_vars(Resume(s))

\* the promise of search s has settled
Settled(s) == pc[s] \in {"resolved", "rejected"}

\* C14: every search that has been called settles; and the reason it does:
\* the attempt counter starts at 0, each retried failure raises it by
\* exactly one, and it never exceeds maximumRetry.
C14_EverySearchSettles ==
  /\ \A s \in PairCalls : InFlight(s) ~> Settled(s)
  /\ [](\A s \in PairCalls :
         pc[s] \in {"sleeping", "inflight"} =>
           attempt[s] \in 0..opts.maximumRetry.v)
  /\ [][\A s \in PairCalls :
         /\ (pc[s] = "inflight" /\ pc'[s] = "sleeping") =>
              attempt'[s] = attempt[s] + 1
         /\ attempt'[s] # attempt[s] => attempt'[s] = attempt[s] + 1
         /\ Settled(s) => Settled(s)']_vars

\* all searches settled, one resolved by its last allowed attempt and one
\* rejected when the attempts ran out
C14_Witness ==
  /\ \A s \in PairCalls : Settled(s)
  /\ \E s, u \in PairCalls :
       /\ pc[s] = "resolved" /\ Len(raised[s]) = MaxRetry
       /\ pc[u] = "rejected" /\ Len(raised[u]) = MaxRetry + 1

(***************************************************************************)
(* C15.  The plate validate returns.                                       *)
(***************************************************************************)

\* C15: whatever string search is called with, a plate that validate has
\* returned, the one the token and the request body are built from, has
\* exactly 7 characters, 3 letters followed by 4 digits.
C15_ReturnedPlateIsSevenCharacters ==
  \A s \in Calls :
    pc[s] = "validated" =>
      /\ Len(plateToUse[s]) = 7
      /\ IsPlate(plateToUse[s])

(***************************************************************************)
(* C16.  A response without the whole path to the return value.            *)
(***************************************************************************)

\* an element of the path envelope, body, operation response, return value is
\* missing from the parsed document r
LacksPath(r) == r.parses /\ r.depth < PathLen

\* C16: a search whose response lacks any element of the path is rejected
\* with an error thrown by the decoding and settles with no record; a
\* search that resolved had a response holding the whole path and resolved
\* with that response's return value.
C16_MissingPathFails ==
  \A s \in Calls :
    /\ (Responded(s) /\ ~InFlight(s) /\ LacksPath(response[s])) =>
         /\ pc[s] = "rejected"
         /\ outcome[s] = Error("normalize", "TypeError")
    /\ pc[s] = "resolved" =>
         /\ ~LacksPath(response[s])
         /\ response[s].depth = PathLen
         /\ outcome[s] = response[s].ret
         /\ outcome[s] # Undefined

\* a search rejected for a response with envelope, body and operation
\* response but no return value
C16_Witness ==
  \E s \in Calls :
    /\ pc[s] = "rejected"
    /\ Responded(s)
    /\ response[s].parses
    /\ response[s].depth = PathLen - 1
    /\ outcome[s] = Error("normalize", "TypeError")

(***************************************************************************)
(* C17.  The configuration is replaced as a whole.                         *)
(***************************************************************************)

\* what the searches hold: every variable but opts and supplied
searches ==
  <<pc, plate, plateToUse, ident, token, body, req, attempt, delay, slept,
    sent, raised, response, outcome>>

\* C17: in every reachable state, also between the steps of a search, opts
\* is the complete value one configure call assigned, that of the latest
\* call (the module-load configure() at first), never fields of two calls
\* mixed; and opts changes only in a step that is a configure call, in which
\* no search moves: no step of a search writes it.
C17_ConfigurationSwappedWhole ==
  /\ [](opts = configureOpts(supplied) /\ opts \in Configurations)
  /\ [][/\ opts' # opts => (opts' = configureOpts(supplied')
                              /\ searches' = searches)
        /\ searches' # searches => (opts' = opts /\ supplied' = supplied)]_vars

\* a search suspended between its steps, with part of its request built,
\* while opts holds the whole result of a configure call made since the
\* search began
C17_Witness ==
  \E s \in Calls :
    /\ pc[s] \in {"generated", "encoded", "sleeping", "inflight"}
    /\ supplied = Customized
    /\ opts = configureOpts(Customized)
    /\ token[s] = createHmac(Join(plateToUse[s]) \o "#"
                               \o TemplateString(DEFAULT.serviceVersion) \o "#"
                               \o TemplateString(DEFAULT.secret),
                             Join(plateToUse[s]))

(***************************************************************************)
(* C18.  One envelope per search, the same for every attempt.              *)
(***************************************************************************)

\* search s has generated its identity
Identified(s) == ident[s] # Undefined

\* identity, token, body and request of search s are written once: the first
\* value each of them gets is the one it keeps
GeneratedOnce(s) ==
  /\ Identified(s) => ident'[s] = ident[s]
  /\ token[s] # Undefined => token'[s] = token[s]
  /\ body[s] # Undefined => body'[s] = body[s]
  /\ req[s] # Undefined => req'[s] = req[s]

\* every attempt of search s so far has sent the request built once, whose
\* payload is the body built once from the identity, token and plate
SameEnvelopeEveryAttempt(s) ==
  /\ \A i \in 1..Len(sent[s]) : sent[s][i] = req[s]
  /\ req[s] # Undefined => req[s].data = body[s]
  /\ body[s] # Undefined =>
       /\ body[s].f = ident[s].ip
       /\ body[s].h = ident[s].longitude
       /\ body[s].i = ident[s].latitude
       /\ body[s].l = ident[s].date
       /\ body[s].g = token[s]
       /\ body[s].a = plateToUse[s]

HighestDraw == RandomDen - 1

OctetDraws ==
  UNION {{<<k, HighestDraw - k, 0, HighestDraw>>,
          <<HighestDraw, k, HighestDraw - k, 0>>,
          <<0, HighestDraw, k, HighestDraw - k>>,
          <<HighestDraw - k, 0, HighestDraw, k>>} : k \in 0..HighestDraw}

OctetInputs ==
  {<<a[1], a[2], a[3], a[4], HighestDraw, HighestDraw, HighestDraw,
     HighestDraw>> : a \in OctetDraws}

NextOctets ==
  \/ \E p \in Plates : Search(TheCall, p)
  \/ /\ pc[TheCall] = "validated"
     /\ \E r \in OctetInputs, now \in ClockInputs : Generate(TheCall, r, now)
  \/ Encode(TheCall)

SpecOctets == Init /\ [][NextOctets]_vars

\* o is floor(r * 255) + 1 for a value r = k / RandomDen of [0, 1):
\* o - 1 <= r * 255 < o
IsOctetOfSomeDraw(o) ==
  \E k \in 0..HighestDraw :
    (o - 1) * RandomDen <= k * 255 /\ k * 255 < o * RandomDen

\* C19: each of the four octets of a generated address is an integer from 1
\* to 255, never 0 and never 256, and is floor(r * 255) + 1 for a value r
\* of the random source; the address in the request body is that address.
C19_OctetsInRange ==
  \A s \in Calls :
    Identified(s) =>
      /\ Len(ident[s].ip) = 4
      /\ \A i \in 1..4 :
           /\ ident[s].ip[i] \in 1..255
           /\ IsOctetOfSomeDraw(ident[s].ip[i])
      /\ body[s] # Undefined => body[s].f = ident[s].ip

\* an address in a request body holding the octet of the lowest draw, 1,
\* and the octet of the highest draw, 255
C19_Witness ==
  \E s \in Calls :
    /\ body[s] # Undefined
    /\ \E i, j \in 1..4 : body[s].f[i] = 1 /\ body[s].f[j] = 255

====
